---- MODULE Spec2Model ----
(***************************************************************************)
(* The Range Engine of timetagger's front end: class TimeRange of          *)
(* src/timetagger/app/front.py, with the part of TimeTaggerCanvas that     *)
(* drives it (now, on_draw, update).                                       *)
(*                                                                         *)
(* Numbers.  The source computes with JavaScript doubles.  Here           *)
(*   - a timestamp is an integer number of seconds since the epoch; the    *)
(*     ranges handed to set_range / animate_range are whole minutes, so    *)
(*     the halves that _get_snap_range produces are carried exactly (as    *)
(*     twice the value) and the interpolation of animation_update is       *)
(*     floored to a whole second;                                          *)
(*   - the clock (dt.now) counts tenths of a second from the moment the    *)
(*     view was constructed: TimeRange only ever uses differences of       *)
(*     clock readings, except in the constructor;                          *)
(*   - a fraction in [0, 1] is a number of FScale-ths;                     *)
(*   - Math.log is its integer part (ILog2, ILn);                          *)
(*   - NaN, +Infinity and -Infinity, which the source produces for ranges  *)
(*     that are empty or inverted, are the three values NaN, PosInf and    *)
(*     NegInf, outside the range of every timestamp of the model.          *)
(* The calendar arithmetic (window.dt) is not part of front.py; it is      *)
(* modelled from its contract, in the time zone tz of the browser: UTC,    *)
(* or a zone with daylight saving time.                                    *)
(***************************************************************************)
EXTENDS Integers, Sequences, FiniteSets, TLC

VARIABLES _t1, _t2, _animate, _cache_tick_data, clock, dirty, call,
          requested, ncalls, tz

vars == <<_t1, _t2, _animate, _cache_tick_data, clock, dirty, call,
         requested, ncalls, tz>>

(***************************************************************************)
(* Bounds of the model.                                                    *)
(***************************************************************************)
\* The clock runs from 0 to MaxClock tenths of a second.
MaxClock == 5
\* At most MaxCalls calls of set_range, animate_range and snap by the input
\* handlers.
MaxCalls == 2
\* A fraction is a number of FScale-ths.
FScale == 32768

(***************************************************************************)
(* JavaScript's special numbers.                                           *)
(***************************************************************************)
NaN == -2000000001
PosInf == 2000000002
NegInf == -2000000002
None == [none |-> TRUE]
\* animation_time = None: the caller gave no animation time.
NoTime == -1000000000

IsSpecial(v) == v \in {NaN, PosInf, NegInf}

Min(a, b) == IF a <= b THEN a ELSE b
Max(a, b) == IF a >= b THEN a ELSE b

(***************************************************************************)
(* Calendar arithmetic: window.dt (floor, round, add).  A unit is a pair   *)
(* <<n, u>> for the source's strings "5m", "1D", "-1M", ...                *)
(*                                                                         *)
(* The arithmetic is done on the wall clock of the time zone tz: a         *)
(* timestamp is taken to its wall-clock time (the seconds that a clock in  *)
(* the zone shows, counted as in UTC), the unit is added or floored there, *)
(* and the result is taken back.  The zone "DST" is UTC in winter and one  *)
(* hour ahead from SummerTime (02:00 becomes 03:00) to WinterTime (03:00   *)
(* becomes 02:00, so that the hour from 02:00 to 03:00 passes twice).      *)
(***************************************************************************)
DaySecs == 86400

\* Sunday 1973-03-25 02:00 and Sunday 1973-10-28 03:00 of the zone "DST".
SummerTime == 94694400 + 83 * 86400 + 7200
WinterTime == 94694400 + 300 * 86400 + 7200

\* The wall-clock time of the timestamp t.
ToLocal(t) ==
    IF tz = "DST" /\ SummerTime <= t /\ t < WinterTime THEN t + 3600 ELSE t

\* The timestamp of the wall-clock time w: a time of the hour that
\* SummerTime skips is taken as winter time, a time of the hour that passes
\* twice as its first passing.
FromLocal(w) ==
    IF tz = "DST" /\ SummerTime + 3600 <= w /\ w < WinterTime + 3600
    THEN w - 3600 ELSE w

UnitSecs(u) ==
    CASE u = "s" -> 1
      [] u = "m" -> 60
      [] u = "h" -> 3600
      [] u = "D" -> 86400
      [] u = "W" -> 604800

IsLeap(y) == (y % 4 = 0 /\ y % 100 # 0) \/ y % 400 = 0

DaysInMonth(y, m) ==
    IF m = 2 THEN (IF IsLeap(y) THEN 29 ELSE 28)
    ELSE IF m \in {4, 6, 9, 11} THEN 30 ELSE 31

\* The day number (days since 1970-01-01) of the civil date y-m-d.
DaysFromEra(yy, mp, d) ==
    (yy \div 400) * 146097 + (yy % 400) * 365 + ((yy % 400) \div 4)
        - ((yy % 400) \div 100) + ((153 * mp + 2) \div 5) + d - 1 - 719468

DaysFromCivil(y, m, d) ==
    DaysFromEra(IF m <= 2 THEN y - 1 ELSE y, IF m > 2 THEN m - 3 ELSE m + 9, d)

\* The civil date <<y, m, d>> of a day number: of the day doe of the
\* 400-year era, of the day doy of the year (both counted from 1 March).
YearOfEra(doe) ==
    (doe - (doe \div 1460) + (doe \div 36524) - (doe \div 146096)) \div 365

CivilOfMonth(y0, doy, mp) ==
    << y0 + (IF mp < 10 THEN 0 ELSE 1),
       IF mp < 10 THEN mp + 3 ELSE mp - 9,
       doy - ((153 * mp + 2) \div 5) + 1 >>

CivilOfYear(y0, doy) == CivilOfMonth(y0, doy, (5 * doy + 2) \div 153)

CivilOfYoe(era, doe, yoe) ==
    CivilOfYear(era * 400 + yoe,
                doe - (365 * yoe + (yoe \div 4) - (yoe \div 100)))

CivilFromDays(z0) ==
    CivilOfYoe((z0 + 719468) \div 146097, (z0 + 719468) % 146097,
               YearOfEra((z0 + 719468) % 146097))

\* The first second of the day d of the month with index mi (12 * year +
\* month - 1), or of its last day when the month has no day d.
MonthStart(mi, d) ==
    DaysFromCivil(mi \div 12, (mi % 12) + 1,
                  Min(d, DaysInMonth(mi \div 12, (mi % 12) + 1))) * DaySecs

AddMonths(c, months, secs) ==
    MonthStart(c[1] * 12 + (c[2] - 1) + months, c[3]) + secs

\* The unit added on the wall clock (n may be negative).
WallAdd(t, unit) ==
    IF unit[2] = "M" THEN AddMonths(CivilFromDays(t \div DaySecs), unit[1],
                                    t % DaySecs)
    ELSE IF unit[2] = "Y" THEN AddMonths(CivilFromDays(t \div DaySecs),
                                         12 * unit[1], t % DaySecs)
    ELSE t + unit[1] * UnitSecs(unit[2])

\* dt.add(t, unit): calendar-correct add of n units.
dt_add(t, unit) == FromLocal(WallAdd(ToLocal(t), unit))

\* The Monday on or before the day number `day` (1970-01-01 was a Thursday),
\* then the first of every n weeks.
WeekStart(monday, n) == monday - ((((monday + 3) \div 7) % n) * 7)

FloorCivil(c, n, u) ==
    IF u = "Y" THEN DaysFromCivil(c[1] - (c[1] % n), 1, 1) * DaySecs
    ELSE DaysFromCivil(c[1], c[2] - ((c[2] - 1) % n), 1) * DaySecs

\* The first second of the day of the month to which n days align: the
\* days 1, 1 + n, 1 + 2n, ... of every month.
FloorDays(c, n) == DaysFromCivil(c[1], c[2], c[3] - ((c[3] - 1) % n)) * DaySecs

\* The wall-clock time floored to the unit.
WallFloor(t, unit) ==
    IF unit[2] \in {"Y", "M"}
    THEN FloorCivil(CivilFromDays(t \div DaySecs), unit[1], unit[2])
    ELSE IF unit[2] = "W"
    THEN WeekStart((t \div DaySecs) - (((t \div DaySecs) + 3) % 7), unit[1])
             * DaySecs
    ELSE IF unit[2] = "D" /\ unit[1] > 1
    THEN FloorDays(CivilFromDays(t \div DaySecs), unit[1])
    ELSE t - (t % (unit[1] * UnitSecs(unit[2])))

\* dt.floor(t, unit): the largest timestamp aligned to the unit that is <= t.
dt_floor(t, unit) == FromLocal(WallFloor(ToLocal(t), unit))

\* dt.round(t, unit) of the timestamp tw / 2: the nearest aligned timestamp
\* (the later one when both are equally near).
Nearer(tw, lo, hi) == IF tw - 2 * lo < 2 * hi - tw THEN lo ELSE hi

NearestOf(tw, lo, unit) == Nearer(tw, lo, dt_add(lo, unit))

dt_round2(tw, unit) == NearestOf(tw, dt_floor(tw \div 2, unit), unit)

dt_round(t, unit) == dt_round2(2 * t, unit)

(***************************************************************************)
(* SCALES: <<ran, res, max_nsecs, label>>.  The last threshold is          *)
(* 999999999999 in the source; every span of the model is below it and     *)
(* below the largest integer of the model checker, which stands for it.    *)
(***************************************************************************)
SCALES ==
    << << <<5, "m">>,  <<1, "m">>, 480, "" >>,
       << <<20, "m">>, <<1, "m">>, 2100, "" >>,
       << <<1, "h">>,  <<5, "m">>, 6480, "" >>,
       << <<3, "h">>,  <<5, "m">>, 12960, "" >>,
       << <<6, "h">>,  <<5, "m">>, 30600, "" >>,
       << <<12, "h">>, <<1, "h">>, 54000, "" >>,
       << <<1, "D">>,  <<1, "h">>, 172800, "Day" >>,
       << <<1, "W">>,  <<1, "D">>, 1028160, "Week" >>,
       << <<1, "M">>,  <<1, "M">>, 3024000, "Month" >>,
       << <<7, "W">>,  <<1, "W">>, 5443200, "7x7" >>,
       << <<3, "M">>,  <<1, "M">>, 17280000, "Quarter" >>,
       << <<1, "Y">>,  <<1, "M">>, 47520000, "Year" >>,
       << <<2, "Y">>,  <<1, "M">>, 110592000, "" >>,
       << <<5, "Y">>,  <<1, "Y">>, 236476800, "" >>,
       << <<10, "Y">>, <<1, "Y">>, 473040000, "" >>,
       << <<20, "Y">>, <<1, "Y">>, 2147483647, "" >> >>

Neg(unit) == <<0 - unit[1], unit[2]>>

(***************************************************************************)
(* Math.log and the power operator, in integers.                           *)
(***************************************************************************)
\* The least integers above e^1, e^2, ..., e^21.
EPowers ==
    <<3, 8, 21, 55, 149, 404, 1097, 2981, 8104, 22027, 59875, 162755,
      442414, 1202605, 3269018, 8886111, 24154953, 65659970, 178482301,
      485165196, 1318815735>>

\* The integer part of Math.log(q), for an integer q >= 1.
ILn(q) == Cardinality({k \in 1..Len(EPowers) : EPowers[k] <= q})

\* The integer part of the logarithm to the base 2 of n >= 1.
RECURSIVE ILog2(_)
ILog2(n) == IF n < 2 THEN 0 ELSE 1 + ILog2(n \div 2)

RECURSIVE Gcd(_, _)
Gcd(a, b) == IF b <= 0 THEN a ELSE Gcd(b, a % b)

\* (h / FScale) ** 2 in FScale-ths.
FixSquare(h) == (h * h) \div FScale

\* (f / FScale) ** p in FScale-ths, for 0 <= f <= FScale and p >= 1.
RECURSIVE FixPow(_, _)
FixPow(f, p) ==
    IF p <= 1 THEN f
    ELSE IF p % 2 = 0 THEN FixSquare(FixPow(f, p \div 2))
    ELSE (FixSquare(FixPow(f, p \div 2)) * f) \div FScale

\* The largest k in lo..hi with (k / FScale) ** q <= v / FScale: the q-th
\* root of v / FScale in FScale-ths (FixPow(lo, q) <= v is given).
RECURSIVE FixRoot(_, _, _, _)
FixRoot(v, q, lo, hi) ==
    IF lo >= hi THEN lo
    ELSE IF FixPow((lo + hi + 1) \div 2, q) <= v
    THEN FixRoot(v, q, (lo + hi + 1) \div 2, hi)
    ELSE FixRoot(v, q, lo, ((lo + hi + 1) \div 2) - 1)

(***************************************************************************)
(* TimeRange.  The object is the record                                    *)
(*   [t1, t2, animate, dirty, raised]:                                     *)
(* _t1, _t2 and _animate of the source, whether canvas.update() has asked  *)
(* for a redraw, and the exception that escaped the last call ("" for      *)
(* none).  Each method is an operator from the object (and the reading of  *)
(* canvas.now() where the method takes one) to the object after the call.  *)
(***************************************************************************)
get_range(self) == <<self.t1, self.t2>>

\* get_target_range without the animation branch: the displayed range.
DisplayedAsTarget(self) == <<self.t1, self.t2>>

get_target_range(self) ==
    IF self.animate # None
    THEN <<self.animate.t1_new, self.animate.t2_new>>
    ELSE <<self.t1, self.t2>>

\* self._canvas.update()
update(self) == [self EXCEPT !.dirty = TRUE]

\* set_range without the line self._animate = None.
KeepAnimation(self, t1, t2) ==
    IF ~(t1 < t2)
    THEN [self EXCEPT !.raised = "AssertionError"]
    ELSE update([self EXCEPT !.t1 = t1, !.t2 = t2, !.raised = ""])

\* set_range without the line assert t1 < t2.
NoAssert(self, t1, t2) ==
    update([self EXCEPT !.t1 = t1, !.t2 = t2, !.animate = None,
                        !.raised = ""])

set_range(self, t1, t2) ==
    IF ~(t1 < t2)
    THEN [self EXCEPT !.raised = "AssertionError"]
    ELSE update([self EXCEPT !.t1 = t1, !.t2 = t2, !.animate = None,
                             !.raised = ""])

\* 0.3 + 0.1 * Math.log(max(nsecs1, nsecs2) / min(nsecs1, nsecs2)), in
\* tenths of a second.  With an operand that is NaN the result is NaN; a
\* factor below zero has no logarithm (NaN), a factor x / 0 is +Infinity,
\* 0 / 0 is NaN and 0 / x for x < 0 is -0, whose logarithm is -Infinity.
LogFactorTime(mx, mn) ==
    IF mn > 0 THEN 3 + ILn(mx \div mn)
    ELSE IF mn = 0 THEN (IF mx = 0 THEN NaN ELSE PosInf)
    ELSE IF mx > 0 THEN NaN
    ELSE IF mx = 0 THEN NegInf
    ELSE 3 - ILn((0 - mn) \div (0 - mx))

DefaultAnimationTime(nsecs1, nsecs2) ==
    IF nsecs1 = NaN \/ nsecs2 = NaN THEN NaN
    ELSE LogFactorTime(Max(nsecs1, nsecs2), Min(nsecs1, nsecs2))

\* a + b and a - b of two numbers that may be NaN or infinite (never two
\* infinities).
NumAdd(a, b) ==
    IF a = NaN \/ b = NaN THEN NaN
    ELSE IF IsSpecial(a) THEN a
    ELSE IF IsSpecial(b) THEN b
    ELSE a + b

NumSub(a, b) ==
    IF a = NaN \/ b = NaN THEN NaN
    ELSE IF IsSpecial(a) THEN a
    ELSE a - b

\* a >= b, which is false when either is NaN.
NumGe(a, b) ==
    IF a = NaN \/ b = NaN THEN FALSE
    ELSE IF b = NegInf \/ a = PosInf THEN TRUE
    ELSE IF b = PosInf \/ a = NegInf THEN FALSE
    ELSE a >= b

\* The last two statements of animate_range, once animation_time is known.
StartAnimation(self, now, t1, t2, time, snap) ==
    update([self EXCEPT
        !.animate = [t1_old |-> self.t1, t2_old |-> self.t2,
                     t1_new |-> t1, t2_new |-> t2,
                     animation_time |-> time,
                     animation_end |-> NumAdd(now, time),
                     snap |-> snap],
        !.raised = ""])

\* animate_range that leaves an animation in flight alone.
FirstWriterWins(self, now, t1, t2, animation_time, snap) ==
    IF self.animate # None THEN [self EXCEPT !.raised = ""]
    ELSE StartAnimation(self, now, t1, t2,
                        IF animation_time = NoTime
                        THEN DefaultAnimationTime(NumSub(t2, t1),
                                                  NumSub(self.t2, self.t1))
                        ELSE animation_time,
                        snap)

animate_range(self, now, t1, t2, animation_time, snap) ==
    StartAnimation(self, now, t1, t2,
                   IF animation_time = NoTime
                   THEN DefaultAnimationTime(NumSub(t2, t1),
                                             NumSub(self.t2, self.t1))
                   ELSE animation_time,
                   snap)

(***************************************************************************)
(* Snapping.                                                               *)
(***************************************************************************)
\* The index of the first scale with nsecs < max_nsecs.
NearestScale(nsecs) ==
    CHOOSE i \in 1..Len(SCALES) :
        /\ nsecs < SCALES[i][3]
        /\ \A j \in 1..(i - 1) : ~(nsecs < SCALES[j][3])

\* scale_index = max(0, min(len(SCALES) - 1, i + scalestep)), from 1.
ScaleIndex(nsecs, scalestep) ==
    Max(1, Min(Len(SCALES), NearestScale(nsecs) + scalestep))

\* The result with t4 = dt.add(t3, res).
SnapFromRes(t3, ran, res) == <<t3, dt_add(t3, res), res>>

\* t4 = dt.add(t3, ran), and the result <<t3, t4, res>>.
SnapFrom(t3, ran, res) == <<t3, dt_add(t3, ran), res>>

\* Twice the unrounded t3 = 0.5 * (t5 + dt.add(t5, "-" + ran)), where
\* t5 = 0.5 * (t1 + t2) is q5 + half / 2; dt.add keeps the fraction of a
\* second of its argument.
UnroundedT3(q5, half, ran) == q5 + dt_add(q5, Neg(ran)) + half

SnapToScale(t1, t2, ran, res) ==
    IF dt_round(t1, res) = t1 /\ dt_add(t1, ran) = t2
    THEN <<t1, t2, res>>
    ELSE SnapFrom(dt_round2(UnroundedT3((t1 + t2) \div 2, (t1 + t2) % 2, ran),
                            res),
                  ran, res)

\* _get_snap_range for the target range (t1, t2): <<t3, t4, res>>.
SnapWithScale(t1, t2, scale) == SnapToScale(t1, t2, scale[1], scale[2])

snap_range_of(t1, t2, scalestep) ==
    SnapWithScale(t1, t2, SCALES[ScaleIndex(t2 - t1, scalestep)])

SnapOfTarget(target, scalestep) ==
    snap_range_of(target[1], target[2], scalestep)

\* _get_snap_range computed from the displayed range.
SnapOfDisplayed(self, scalestep) ==
    IF self.t1 = NaN THEN <<NaN, NaN, <<1, "m">>>>
    ELSE SnapOfTarget(get_range(self), scalestep)

_get_snap_range(self, scalestep) ==
    SnapOfTarget(get_target_range(self), scalestep)

FirstTwo(r) == <<r[1], r[2]>>

get_snap_range(self, scalestep) == FirstTwo(_get_snap_range(self, scalestep))

\* nsecs_step, nsecs_full of the snap range <<t1, t2, res>>.
SnapSeconds(r) == <<dt_add(r[1], r[3]) - r[1], r[2] - r[1]>>

get_snap_seconds(self, rel_scale) == SnapSeconds(_get_snap_range(self, rel_scale))

\* The last two lines of snap without the comparison.
AlwaysSnapTo(self, now, t, s) ==
    animate_range(self, now, s[1], s[2], NoTime, TRUE)

\* The last two lines of snap, for the target (t1, t2) and the snap range
\* (t3, t4).
SnapTo(self, now, t, s) ==
    IF ~(t[1] = s[1] /\ t[2] = s[2])
    THEN animate_range(self, now, s[1], s[2], NoTime, TRUE)
    ELSE [self EXCEPT !.raised = ""]

snap(self, now) ==
    SnapTo(self, now, get_target_range(self), get_snap_range(self, 0))

(***************************************************************************)
(* INTERVALS: <<delta, minor_delta, granularity, nsecs>>.                  *)
(***************************************************************************)
INTERVALS ==
    << << <<1, "m">>,  <<10, "s">>, "mm", 60 >>,
       << <<2, "m">>,  <<10, "s">>, "mm", 120 >>,
       << <<5, "m">>,  <<1, "m">>,  "mm", 300 >>,
       << <<10, "m">>, <<1, "m">>,  "mm", 600 >>,
       << <<30, "m">>, <<5, "m">>,  "mm", 1800 >>,
       << <<1, "h">>,  <<10, "m">>, "mm", 3600 >>,
       << <<2, "h">>,  <<15, "m">>, "mm", 7200 >>,
       << <<6, "h">>,  <<1, "h">>,  "hh", 21600 >>,
       << <<12, "h">>, <<1, "h">>,  "hh", 43200 >>,
       << <<1, "D">>,  <<3, "h">>,  "DD", 86400 >>,
       << <<2, "D">>,  <<6, "h">>,  "DD", 172800 >>,
       << <<4, "D">>,  <<1, "D">>,  "DM", 345600 >>,
       << <<8, "D">>,  <<1, "D">>,  "DM", 691200 >>,
       << <<1, "M">>,  <<5, "D">>,  "MM", 2592000 >>,
       << <<3, "M">>,  <<1, "M">>,  "MM", 7776000 >>,
       << <<1, "Y">>,  <<1, "M">>,  "YY", 31536000 >>,
       << <<1, "Y">>,  <<3, "M">>,  "YY", 63072000 >>,
       << <<5, "Y">>,  <<1, "Y">>,  "YY", 157680000 >>,
       << <<10, "Y">>, <<1, "Y">>,  "YY", 315360000 >> >>

(***************************************************************************)
(* get_ticks.  The number of pixels is 4 times a square, so that the root  *)
(* in min_distance is exact; then npixels / min_distance is a whole number *)
(* and min_interval = nsecs / (npixels / min_distance).  A pixel position  *)
(* is floored to a whole pixel.                                            *)
(***************************************************************************)
pixelref == 4

Sqrt(n) == CHOOSE r \in 0..n : r * r = n

\* min_distance = pixelref * (npixels / pixelref) ** 0.5
min_distance(npixels) == pixelref * Sqrt(npixels \div pixelref)

\* npixels / min_distance: min_interval is nsecs divided by it.
PerDistance(npixels) == npixels \div min_distance(npixels)

\* The row of INTERVALS at which the loop ends: the first one with
\* interval > min_interval, or the last row.
IntervalIndex(nsecs, per) ==
    IF \E i \in 1..Len(INTERVALS) : INTERVALS[i][4] > nsecs \div per
    THEN CHOOSE i \in 1..Len(INTERVALS) :
             /\ INTERVALS[i][4] > nsecs \div per
             /\ \A j \in 1..(i - 1) : ~(INTERVALS[j][4] > nsecs \div per)
    ELSE Len(INTERVALS)

\* (interval - min_interval) / interval < 0.125, that is
\* 7 * interval * per < 8 * nsecs, or
\* interval <= (8 * nsecs - 1) \div (7 * per).
CloseToNext(interval, nsecs, per) ==
    interval <= 8 * (nsecs \div (7 * per))
                    + ((8 * (nsecs % (7 * per)) - 1) \div (7 * per))

\* get_ticks without the hysteresis: the minor delta is the one of the row.
OwnMinor(i, nsecs, per) == INTERVALS[i][2]

\* minor_delta: of the row, or of the next row if we are close to it.
MinorOf(i, nsecs, per) ==
    IF i < Len(INTERVALS) /\ CloseToNext(INTERVALS[i][4], nsecs, per)
    THEN INTERVALS[i + 1][2]
    ELSE INTERVALS[i][2]

\* check_summertime_transition = "h" in delta or "m" in delta
HasHourOrMinute(delta) == delta[2] \in {"h", "m"}

\* get_ticks without the week view.
NeverWeekView(scale) == FALSE

\* This is a week-view: range and res of the scale both include "W".
IsWeekView(scale) == scale[1][2] = "W" /\ scale[2][2] = "W"

\* The week view keeps the delta and the minor delta of the row.
RowDeltas(i, nsecs, per) ==
    [delta |-> INTERVALS[i][1], minor_delta |-> MinorOf(i, nsecs, per),
     granularity |-> INTERVALS[i][3], interval |-> INTERVALS[i][4],
     check |-> HasHourOrMinute(INTERVALS[i][1])]

\* delta, minor_delta, granularity, interval and
\* check_summertime_transition.
Deltas(i, nsecs, per) ==
    IF IsWeekView(SCALES[NearestScale(nsecs)])
    THEN [RowDeltas(i, nsecs, per) EXCEPT !.delta = <<1, "W">>,
                                           !.minor_delta = <<1, "W">>]
    ELSE RowDeltas(i, nsecs, per)

DeltasOf(nsecs, npixels) ==
    Deltas(IntervalIndex(nsecs, PerDistance(npixels)), nsecs,
           PerDistance(npixels))

\* maxi = min(2 * npixels / min_distance, 99)
Maxi(npixels) == Min(2 * PerDistance(npixels), 99)

\* r * n = q * d + m, as <<q, m>>, for 0 <= r < d.
Doubled(h, more, d) ==
    << 2 * h[1] + ((2 * h[2] + more) \div d), (2 * h[2] + more) % d >>

RECURSIVE MulDivMod(_, _, _)
MulDivMod(r, n, d) ==
    IF n = 0 THEN <<0, 0>>
    ELSE Doubled(MulDivMod(r, n \div 2, d), (n % 2) * r, d)

\* pix_pos = (t - t1) * npixels / nsecs
PixPos(t, v) ==
    ((t - v.t1) \div v.nsecs) * v.npixels
        + MulDivMod((t - v.t1) % v.nsecs, v.npixels, v.nsecs)[1]

\* t_new = dt.floor(dt.add(t + 1, delta), delta), or dt.add(t, delta) if
\* that does not advance.
TNew(t, delta) ==
    IF dt_floor(dt_add(t + 1, delta), delta) <= t THEN dt_add(t, delta)
    ELSE dt_floor(dt_add(t + 1, delta), delta)

\* The minor ticks from t_minor to t_new.
RECURSIVE MinorTicks(_, _, _, _)
MinorTicks(t_minor, iter_minor, t_new, v) ==
    IF iter_minor < 20 /\ (t_new - t_minor) > 0
    THEN << <<PixPos(t_minor, v), t_minor>> >>
           \o (IF dt_add(t_minor, v.minor_delta) <= t_minor THEN << >>
               ELSE MinorTicks(dt_add(t_minor, v.minor_delta),
                               iter_minor + 1, t_new, v))
    ELSE << >>

\* The hours after tc, up to five: <<tb, tc>> of the first hour of which
\* the end tc is not 3600 s after its begin, or << >>.
RECURSIVE Transition(_, _)
Transition(tc, i) ==
    IF i >= 5 THEN << >>
    ELSE IF dt_add(tc, <<1, "h">>) # tc + 3600
    THEN <<tc + 3600, dt_add(tc, <<1, "h">>)>>
    ELSE Transition(dt_add(tc, <<1, "h">>), i + 1)

\* The ticks at the summertime transition: at tb, and at tc unless t_new
\* is tc; both carry the time tc.
TransitionTicks(tr, t_new, v) ==
    IF tr = << >> THEN << >>
    ELSE IF t_new = tr[2] THEN << <<PixPos(tr[1], v), tr[2]>> >>
    ELSE << <<PixPos(tr[1], v), tr[2]>>, <<PixPos(tr[2], v), tr[2]>> >>

\* The minor ticks at the duplicate hour.
RECURSIVE DuplicateMinorTicks(_, _, _, _, _)
DuplicateMinorTicks(t_minor, iter_minor, tc, d_minor, v) ==
    IF iter_minor < 20 /\ t_minor < tc
    THEN << <<PixPos(t_minor, v) + 3, t_minor>> >>
           \o DuplicateMinorTicks(t_minor + d_minor, iter_minor + 1, tc,
                                  d_minor, v)
    ELSE << >>

TransitionMinorTicks(tr, d_minor, v) ==
    IF tr = << >> THEN << >>
    ELSE DuplicateMinorTicks(tr[1] + d_minor, -1, tr[2], d_minor, v)

\* Summertime transition?
Stretched(t, t_new, v) == v.check /\ 10 * (t_new - t) > 11 * v.interval

\* One round of the loop at t: its ticks and its minor ticks.
RoundTicks(t, t_new, v) ==
    << <<PixPos(t, v), t>> >>
        \o (IF Stretched(t, t_new, v)
            THEN TransitionTicks(Transition(dt_floor(t_new, <<1, "D">>), 0),
                                 t_new, v)
            ELSE << >>)

RoundMinorTicks(t, t_new, v) ==
    MinorTicks(dt_add(t, v.minor_delta), -1, t_new, v)
        \o (IF Stretched(t, t_new, v)
            THEN TransitionMinorTicks(
                     Transition(dt_floor(t_new, <<1, "D">>), 0),
                     dt_add(t_new, v.minor_delta) - t_new, v)
            ELSE << >>)

\* The pushes of a, then the rounds b: <<ticks, minor_ticks, t, broke>>.
Joined(a, b) == <<a[1] \o b[1], a[2] \o b[2], b[3], b[4]>>

\* One round of the loop at t: its ticks and minor ticks, the t of the
\* next round, and whether (t - t2) > 0 broke the loop.
Round(t, t_new, v) ==
    <<RoundTicks(t, t_new, v), RoundMinorTicks(t, t_new, v), t_new,
      (t - v.t2) > 0>>

\* The rounds in which iter counts from lo to hi, from the round at t on:
\* those up to mid, and those from mid unless the loop was broken.
RECURSIVE Rounds(_, _, _, _)
Continued(first, mid, hi, v) ==
    IF first[4] THEN first ELSE Joined(first, Rounds(first[3], mid, hi, v))

Rounds(t, lo, hi, v) ==
    IF hi - lo <= 0 THEN << << >>, << >>, t, FALSE >>
    ELSE IF hi - lo = 1 THEN Round(t, TNew(t, v.delta), v)
    ELSE CHOOSE rounds \in
             {Continued(first, (lo + hi) \div 2, hi, v) :
                  first \in {Rounds(t, lo, (lo + hi) \div 2, v)}} : TRUE

\* The loop: <<ticks, minor_ticks>> from the round at t on, while
\* iter < maxi.
Walk(t, iter, v) == FirstTwo(Rounds(t, iter, v.maxi, v))

\* What the walk works with.
WalkOf(t1, t2, npixels, d) ==
    [t1 |-> t1, t2 |-> t2, nsecs |-> t2 - t1, npixels |-> npixels,
     delta |-> d.delta, minor_delta |-> d.minor_delta,
     interval |-> d.interval, check |-> d.check, maxi |-> Maxi(npixels)]

\* t = dt.floor(t1 - 0.1 * nsecs, delta)
FirstTick(v) == dt_floor(v.t1 - ((v.nsecs + 9) \div 10), v.delta)

WithGranularity(w, granularity) == <<w[1], w[2], granularity>>

\* ticks, minor_ticks, granularity of the range (t1, t2) on npixels.
TicksWith(v, d) == WithGranularity(Walk(FirstTick(v), -1, v), d.granularity)

Ticks(t1, t2, npixels) ==
    TicksWith(WalkOf(t1, t2, npixels, DeltasOf(t2 - t1, npixels)),
              DeltasOf(t2 - t1, npixels))

\* A cache key that leaves out the range.
KeyOfHeight(self, npixels) == <<0, 0, npixels>>

\* cache_key = str((t1, t2, npixels)): the string is the triple.
CacheKey(self, npixels) == <<self.t1, self.t2, npixels>>

\* get_ticks that computes the ticks every time.
AlwaysWalks(self, cache, npixels) ==
    [key |-> CacheKey(self, npixels),
     result |-> Ticks(self.t1, self.t2, npixels),
     walked |-> TRUE]

\* get_ticks(npixels): the cache after the call, with the result returned;
\* walked tells that the ticks were computed by this call.
get_ticks(self, cache, npixels) ==
    IF cache # None /\ cache.key = CacheKey(self, npixels)
    THEN [key |-> cache.key, result |-> cache.result, walked |-> FALSE]
    ELSE [key |-> CacheKey(self, npixels),
          result |-> Ticks(self.t1, self.t2, npixels),
          walked |-> TRUE]

(***************************************************************************)
(* get_stat_period: <<res, name>>, where the res None is NoPeriod.         *)
(***************************************************************************)
NoPeriod == <<0, "">>

\* The scale at which the loop over SCALES ends: the first one with a name
\* and nsecs < max_nsecs, or the last one when the loop runs to its end.
StatScale(nsecs) ==
    IF \E i \in 1..Len(SCALES) : SCALES[i][4] # "" /\ nsecs < SCALES[i][3]
    THEN CHOOSE i \in 1..Len(SCALES) :
             /\ SCALES[i][4] # "" /\ nsecs < SCALES[i][3]
             /\ \A j \in 1..(i - 1) :
                    ~(SCALES[j][4] # "" /\ nsecs < SCALES[j][3])
    ELSE Len(SCALES)

\* res, name of the scale, without the special case of the month level.
ResAndName(scale) == <<scale[2], scale[4]>>

\* res, name of the scale, with res = "1W" if ran == "1M".
StatPeriodOf(scale) ==
    <<IF scale[1] = <<1, "M">> THEN <<1, "W">> ELSE scale[2], scale[4]>>

\* With a span that is NaN every comparison fails and the loop runs to its
\* end.
get_stat_period(self) ==
    IF self.t1 = NaN \/ self.t2 = NaN THEN StatPeriodOf(SCALES[Len(SCALES)])
    ELSE IF self.t2 - self.t1 < 2 * 86400 THEN <<NoPeriod, "">>
    ELSE StatPeriodOf(SCALES[StatScale(self.t2 - self.t1)])

(***************************************************************************)
(* get_context_header.  A header is the format of its text followed by the *)
(* numbers that fill it in: a month and a day of the week stand for their  *)
(* short names.                                                            *)
(***************************************************************************)
\* dt.get_year_month_day(t): <<year, month, monthday>> in local time.  The
\* day of dt.time2str(t) is this day.
dt_get_year_month_day(t) == CivilFromDays(ToLocal(t) \div DaySecs)

\* dt.get_weekday_shortname(t), as the number of the day: Monday is 0.
dt_get_weekday(t) == ((ToLocal(t) \div DaySecs) + 3) % 7

\* dt.is_first_day_of_week(t): weeks start on Monday.
dt_is_first_day_of_week(t) == dt_get_weekday(t) = 0

\* The number of the week of the year in which its Thursday lies, from the
\* Thursday's number in the days since 1970.
WeekOfThursday(thursday) ==
    ((thursday - DaysFromCivil(CivilFromDays(thursday)[1], 1, 1)) \div 7) + 1

\* dt.get_weeknumber(t)
dt_get_weeknumber(t) ==
    WeekOfThursday((ToLocal(t) \div DaySecs) - dt_get_weekday(t) + 3)

\* is_week_range = abs(nsecs - 86400 * 7) <= 4000
is_week_range(nsecs) ==
    (IF nsecs >= 86400 * 7 THEN nsecs - 86400 * 7 ELSE 86400 * 7 - nsecs)
        <= 4000

\* The header of a range that is not taken for a week: never "Week N".
NoWeek(nsecs, t1) == FALSE

\* Exactly a calender week.
IsWeek(nsecs, t1) == is_week_range(nsecs) /\ dt_is_first_day_of_week(t1)

\* Multi month: the year, a quarter or the months.
MultiMonth(d1, d2) ==
    IF d1[2] = 1 /\ d1[3] = 1 /\ d2[2] = 12 /\ d2[3] = 31
    THEN <<"{year1}", d1[1]>>
    ELSE IF d1[2] = 1 /\ d1[3] = 1 /\ d2[2] = 3 /\ d2[3] = 31
    THEN <<"Q1  {year1}", d1[1]>>
    ELSE IF d1[2] = 4 /\ d1[3] = 1 /\ d2[2] = 6 /\ d2[3] = 30
    THEN <<"Q2  {year1}", d1[1]>>
    ELSE IF d1[2] = 7 /\ d1[3] = 1 /\ d2[2] = 9 /\ d2[3] = 30
    THEN <<"Q3  {year1}", d1[1]>>
    ELSE IF d1[2] = 10 /\ d1[3] = 1 /\ d2[2] = 12 /\ d2[3] = 31
    THEN <<"Q4  {year1}", d1[1]>>
    ELSE <<"{monthname1} - {monthname2}  {year1}", d1[2], d2[2], d1[1]>>

\* The header of the range from t1, nsecs long, of which the first second
\* is on the day d1 and the last on the day d2.
Header(t1, t2, nsecs, d1, d2) ==
    IF d1 = d2
    THEN <<"{weekday1} {monthday1}  {monthname1} {year1}",
           dt_get_weekday(t1), d1[3], d1[2], d1[1]>>
    ELSE IF d1[1] = d2[1] /\ d1[2] = d2[2]
    THEN IF nsecs <= 86400 * 3
         THEN <<"{weekday1} {monthday1} - {weekday2} {monthday2}  {monthname1} {year1}",
                dt_get_weekday(t1), d1[3], dt_get_weekday(t2), d2[3], d1[2],
                d1[1]>>
         ELSE IF IsWeek(nsecs, t1)
         THEN <<"Week {wn}  {monthday1}-{monthday2}  {monthname1} {year1}",
                dt_get_weeknumber(t1), d1[3], d2[3], d1[2], d1[1]>>
         ELSE IF nsecs <= 86400 * 14
         THEN <<"{monthday1} - {monthday2}  {monthname1} {year1}",
                d1[3], d2[3], d1[2], d1[1]>>
         ELSE <<"{monthname1}  {year1}", d1[2], d1[1]>>
    ELSE IF d1[1] = d2[1]
    THEN IF IsWeek(nsecs, t1)
         THEN <<"Week {wn}  {monthname1} / {monthname2} {year1}",
                dt_get_weeknumber(t1), d1[2], d2[2], d1[1]>>
         ELSE IF nsecs < 30 * 86400
         THEN <<"{monthname1} / {monthname2}  {year1}", d1[2], d2[2], d1[1]>>
         ELSE MultiMonth(d1, d2)
    ELSE IF IsWeek(nsecs, t1)
         THEN <<"Week {wn}  {monthname1} {year1} / {monthname2} {year2}",
                dt_get_weeknumber(t1), d1[2], d1[1], d2[2], d2[1]>>
         ELSE IF nsecs < 30 * 86400
         THEN <<"{monthname1} {year1} / {monthname2} {year2}",
                d1[2], d1[1], d2[2], d2[1]>>
         ELSE IF nsecs < 367 * 86400
         THEN <<"{monthname1} {year1} - {monthname2} {year2}",
                d1[2], d1[1], d2[2], d2[1]>>
         ELSE <<"{year1} - {year2}", d1[1], d2[1]>>

\* get_context_header(): the header of the displayed range; t2 -= 1.
get_context_header(self) ==
    Header(self.t1, self.t2 - 1, self.t2 - self.t1,
           dt_get_year_month_day(self.t1),
           dt_get_year_month_day(self.t2 - 1))

(***************************************************************************)
(* animation_update.                                                       *)
(***************************************************************************)
\* Math.log(2 + nsecs) as an integer, NaN when 2 + nsecs has no positive
\* logarithm.  (Spans of -1 and -2 seconds, whose logarithms are 0 and
\* -Infinity, do not arise from ranges of whole minutes.)
LogSpan(nsecs) ==
    IF nsecs = NaN \/ 2 + nsecs <= 1 THEN NaN ELSE ILog2(2 + nsecs)

\* (v / FScale) ** (p / q) in FScale-ths: the q-th root, then its p-th power.
PowFrac(v, p, q) == FixPow(FixRoot(v, q, 0, FScale), p)

\* (raw / FScale) ** ((lo / ln) ** 2) in FScale-ths, lo / ln in lowest terms.
PowRatio(raw, lo, ln) == PowFrac(PowFrac(raw, lo, ln), lo, ln)

PowLogs(raw, lo, ln, g) == PowRatio(raw, lo \div g, ln \div g)

\* f as the elapsed fraction (now - start) / animation_time.
ElapsedF(a, now) ==
    ((now - (a.animation_end - a.animation_time)) * FScale)
        \div a.animation_time

\* f = (animation_end - now) / animation_time, in FScale-ths.
RawF(a, now) == ((a.animation_end - now) * FScale) \div a.animation_time

\* The eased f of the interpolating branch, in FScale-ths, or NaN:
\* f = f ** x with x = (Math.log(2 + nsecs_old) / Math.log(2 + nsecs_new)) ** 2.
EasedLogs(a, now, lo, ln) ==
    IF IsSpecial(a.animation_time) \/ lo = NaN \/ ln = NaN THEN NaN
    ELSE PowLogs(RawF(a, now), lo, ln, Gcd(lo, ln))

EasedF(a, now) ==
    EasedLogs(a, now, LogSpan(NumSub(a.t2_old, a.t1_old)),
              LogSpan(NumSub(a.t2_new, a.t1_new)))

\* f * t_old + (1 - f) * t_new with f in FScale-ths, floored to a whole
\* second: t_new + floor(f * (t_old - t_new) / FScale).
Mix(f, t_old, t_new) ==
    IF f = NaN \/ t_old = NaN THEN NaN
    ELSE t_new + ((t_old - t_new) \div FScale) * f
             + ((((t_old - t_new) % FScale) * f) \div FScale)

\* The branch "Done animating" without the lines if snap: self.snap().
NeverSnap(self, a, now) ==
    [self EXCEPT !.t1 = a.t1_new, !.t2 = a.t2_new, !.animate = None,
                 !.raised = ""]

\* The branch "Done animating".
Complete(self, a, now) ==
    IF a.snap
    THEN snap([self EXCEPT !.t1 = a.t1_new, !.t2 = a.t2_new,
                           !.animate = None, !.raised = ""], now)
    ELSE [self EXCEPT !.t1 = a.t1_new, !.t2 = a.t2_new, !.animate = None,
                      !.raised = ""]

\* The interpolation from the displayed range instead of t1_old, t2_old.
FromDisplayed(self, a, f) ==
    [self EXCEPT !.t1 = Mix(f, self.t1, a.t1_new),
                 !.t2 = Mix(f, self.t2, a.t2_new), !.raised = ""]

\* The branch "Interpolate the transition".
Interpolate(self, a, f) ==
    [self EXCEPT !.t1 = Mix(f, a.t1_old, a.t1_new),
                 !.t2 = Mix(f, a.t2_old, a.t2_new), !.raised = ""]

\* animation_update whose branch "Done animating" returns without
\* self._canvas.update().
NoUpdateWhenDone(self, now) ==
    IF self.animate = None THEN [self EXCEPT !.raised = ""]
    ELSE IF NumGe(now, self.animate.animation_end)
    THEN Complete(self, self.animate, now)
    ELSE update(Interpolate(self, self.animate, EasedF(self.animate, now)))

animation_update(self, now) ==
    IF self.animate = None THEN [self EXCEPT !.raised = ""]
    ELSE IF NumGe(now, self.animate.animation_end)
    THEN update(Complete(self, self.animate, now))
    ELSE update(Interpolate(self, self.animate, EasedF(self.animate, now)))

(***************************************************************************)
(* The state machine: the object, the clock, and the calls of the input    *)
(* handlers and of the renderer.  Two variables record what was called:    *)
(* `call` the last call (its arguments, the reading of canvas.now(),       *)
(* whether an animation was in flight when it was made, and whether it     *)
(* repeats an animation_update with the same now), and `requested` the     *)
(* last animate_range of an input handler, as long as no handler has       *)
(* called since.                                                           *)
(***************************************************************************)
\* The object held in the variables.
Self == [t1 |-> _t1, t2 |-> _t2, animate |-> _animate, dirty |-> dirty,
         raised |-> call.raised]

\* The variables take the object `self` after the call `c`.
Becomes(self, c) ==
    /\ _t1' = self.t1
    /\ _t2' = self.t2
    /\ _animate' = self.animate
    /\ dirty' = self.dirty
    /\ call' = [c EXCEPT !.raised = self.raised]

\* Monday 1973-01-01 00:00 UTC.
T0 == 94694400

\* The moments at which the view is constructed.
StartTimes == {T0 + 40 * DaySecs + 30000}

\* The ranges the callers pass: aligned and unaligned ranges of several
\* scales, an empty range and an inverted one.
Ranges ==
    { <<T0, T0 + DaySecs>>,
      <<T0 + 240, T0 + 3240>>,
      <<T0 + 600, T0 + 600>>,
      <<T0 + 3600, T0 + 1800>> }

\* The animation times the callers pass, in tenths of a second.
AnimationTimes == {NoTime, 2}

NoCall == [op |-> "init", t1 |-> 0, t2 |-> 0, animation_time |-> NoTime,
           snap |-> FALSE, now |-> 0, raised |-> "", animating |-> FALSE,
           repeat |-> FALSE, npixels |-> 0, walked |-> FALSE]

\* The call `op` made now.
CallOf(op) ==
    [NoCall EXCEPT !.op = op, !.now = clock, !.animating = (_animate # None)]

\* TimeRange.__init__ at the moment `start`: the current day, snapped
\* without animation.
Snapped(self, s) == [self EXCEPT !.t1 = s[1], !.t2 = s[2]]

SnappedNow(self) == Snapped(self, get_snap_range(self, 0))

Today(t1) ==
    [t1 |-> t1, t2 |-> dt_add(t1, <<1, "D">>), animate |-> None,
     dirty |-> FALSE, raised |-> ""]

Constructed(start) == SnappedNow(Today(dt_floor(start, <<1, "D">>)))

Init ==
    \E start \in StartTimes :
        /\ tz = "UTC"
        /\ _t1 = Constructed(start).t1
        /\ _t2 = Constructed(start).t2
        /\ _animate = None
        /\ dirty = FALSE
        /\ clock = 0
        /\ call = NoCall
        /\ requested = None
        /\ ncalls = 0
        /\ _cache_tick_data = None

\* Time passes.
Tick ==
    /\ clock < MaxClock
    /\ clock' = clock + 1
    /\ UNCHANGED <<_t1, _t2, _animate, _cache_tick_data, dirty, call,
                   requested, ncalls, tz>>

\* An input handler calls set_range(t1, t2).
CallSetRange ==
    /\ ncalls < MaxCalls
    /\ \E r \in Ranges :
           Becomes(set_range(Self, r[1], r[2]),
                   [CallOf("set_range") EXCEPT !.t1 = r[1], !.t2 = r[2]])
    /\ requested' = None
    /\ ncalls' = ncalls + 1
    /\ UNCHANGED <<clock, _cache_tick_data, tz>>

\* An input handler calls animate_range(t1, t2, animation_time, snap).
CallAnimateRange ==
    /\ ncalls < MaxCalls
    /\ \E r \in Ranges, time \in AnimationTimes, sn \in BOOLEAN :
           Becomes(animate_range(Self, clock, r[1], r[2], time, sn),
                   [CallOf("animate_range") EXCEPT
                       !.t1 = r[1], !.t2 = r[2], !.animation_time = time,
                       !.snap = sn])
    /\ requested' = _animate'
    /\ ncalls' = ncalls + 1
    /\ UNCHANGED <<clock, _cache_tick_data, tz>>

\* An input handler calls snap().
CallSnap ==
    /\ ncalls < MaxCalls
    /\ Becomes(snap(Self, clock), CallOf("snap"))
    /\ requested' = None
    /\ ncalls' = ncalls + 1
    /\ UNCHANGED <<clock, _cache_tick_data, tz>>

\* on_draw that asks for a redraw in every frame.
RedrawEveryFrame ==
    /\ Becomes(update(animation_update([Self EXCEPT !.dirty = FALSE], clock)),
               [CallOf("animation_update") EXCEPT
                   !.repeat = (call.op = "animation_update"
                               /\ call.now = clock)])
    /\ UNCHANGED <<clock, requested, ncalls, _cache_tick_data, tz>>

\* TimeTaggerCanvas.on_draw: a frame.  It fixes now for the frame and calls
\* animation_update; the frame serves the redraw that was asked for.  This
\* is the frame of a view that cannot be used (logged out, token expired):
\* it draws the menu only, and no widget asks for the ticks.
on_draw ==
    /\ Becomes(animation_update([Self EXCEPT !.dirty = FALSE], clock),
               [CallOf("animation_update") EXCEPT
                   !.repeat = (call.op = "animation_update"
                               /\ call.now = clock)])
    /\ UNCHANGED <<clock, requested, ncalls, _cache_tick_data, tz>>

Next ==
    \/ Tick
    \/ CallSetRange
    \/ CallAnimateRange
    \/ CallSnap
    \/ on_draw

Spec == Init /\ [][Next]_vars

(***************************************************************************)
(* Properties.                                                             *)
(***************************************************************************)
\* A step in which an input handler makes a call.
IsCallStep == ncalls' = ncalls + 1

\* A step in which a frame is drawn (animation_update is called at clock).
IsDrawStep ==
    /\ ncalls' = ncalls
    /\ clock' = clock
    /\ call'.op = "animation_update"

\* (t1, t2) is an interval of numbers.
Interval(t1, t2) == t1 # NaN /\ t2 # NaN /\ t1 < t2

\* Both ends of the animation record `a` are intervals.
ValidAnim(a) ==
    /\ Interval(a.t1_old, a.t2_old)
    /\ Interval(a.t1_new, a.t2_new)

\* C1: after set_range(t1, t2) with t1 < t2, get_range() is (t1, t2), no
\* animation is in flight, and get_target_range() is (t1, t2) as well.
C1_SetRangeTakesEffect ==
    (call.op = "set_range" /\ call.t1 < call.t2)
        => /\ get_range(Self) = <<call.t1, call.t2>>
           /\ _animate = None
           /\ get_target_range(Self) = <<call.t1, call.t2>>

\* set_range has replaced the range while an animation was in flight.
C1_Witness ==
    /\ call.op = "set_range"
    /\ call.t1 < call.t2
    /\ call.animating
    /\ get_range(Self) = <<call.t1, call.t2>>

\* C2: the displayed range is an interval in every reachable state:
\* current.t1 < current.t2.
C2_RangeIsInterval == Interval(_t1, _t2)

\* C3: animate_range(t1, t2) with t1 >= t2 fails with an error and starts no
\* animation towards (t1, t2).
C3_AnimateRangeRejects ==
    (call.op = "animate_range" /\ ~(call.t1 < call.t2))
        => /\ call.raised # ""
           /\ \/ _animate = None
              \/ <<_animate.t1_new, _animate.t2_new>> # <<call.t1, call.t2>>

\* C4: set_range(t1, t2) with t1 >= t2 fails, and the displayed range and
\* the animation in flight are what they were before the call.
C4_SetRangeRejects ==
    [][(IsCallStep /\ call'.op = "set_range" /\ ~(call'.t1 < call'.t2))
          => /\ call'.raised = "AssertionError"
             /\ UNCHANGED <<_t1, _t2, _animate, dirty>>]_vars

\* set_range has failed while an animation was in flight, and the animation
\* is still in flight.
C4_Witness ==
    /\ call.op = "set_range"
    /\ ~(call.t1 < call.t2)
    /\ call.raised = "AssertionError"
    /\ call.animating
    /\ _animate # None

\* x lies between a and b.
Between(x, a, b) == (a <= x /\ x <= b) \/ (b <= x /\ x <= a)

\* The range is what the record `a` animates from / animates to.
AtFrom(t1, t2, a) == t1 = a.t1_old /\ t2 = a.t2_old

AtTo(t1, t2, a) == t1 = a.t1_new /\ t2 = a.t2_new

\* The moment at which the animation `a` was started.
StartedAt(a) == a.animation_end - a.animation_time

\* The range (t1, t2) is its own snap range.
Aligned(t1, t2) == FirstTwo(snap_range_of(t1, t2, 0)) = <<t1, t2>>

\* In this step the range proceeds along the way of the animation `a`:
\* it is between `from` and `to` before and after, and no further from `to`
\* after than before.
Proceeds(a) ==
    /\ Between(_t1, a.t1_old, a.t1_new)
    /\ Between(_t2, a.t2_old, a.t2_new)
    /\ Between(_t1', _t1, a.t1_new)
    /\ Between(_t2', _t2, a.t2_new)

\* The interpolation of the animation a handler has requested, as the frames
\* drawn at `clock` see it, where `arrived` says in which of the frames
\* with now >= started_at + duration the range has to be `to`.
InterpolationOf(a, arrived) ==
    /\ (clock = StartedAt(a) /\ clock < a.animation_end)
           => AtFrom(_t1', _t2', a)
    /\ clock < a.animation_end => Proceeds(a)
    /\ (clock >= a.animation_end /\ arrived) => AtTo(_t1', _t2', a)

\* C5 as stated: while the requested animation from `from` to `to` is
\* animating, get_range() at now = started_at is `from`, in between it lies
\* between `from` and `to` and moves monotonically toward `to`, and at ANY
\* now >= started_at + duration it is `to` exactly.
C5_AsStated ==
    [][(IsDrawStep /\ requested # None /\ ValidAnim(requested))
          => InterpolationOf(requested, TRUE)]_vars

\* C5: the same, where the range is `to` in the frame that ends the
\* animation, and in every later frame unless the animation was to snap and
\* `to` is not aligned (the snap that follows then moves the range on).
C5_Interpolation ==
    [][(IsDrawStep /\ requested # None /\ ValidAnim(requested))
          => InterpolationOf(requested,
                 \/ _animate = requested
                 \/ ~requested.snap
                 \/ Aligned(requested.t1_new, requested.t2_new))]_vars

\* A frame has drawn the requested animation strictly between its ends.
C5_Witness ==
    /\ call.op = "animation_update"
    /\ requested # None
    /\ ValidAnim(requested)
    /\ _animate = requested
    /\ _t1 # requested.t1_old /\ _t1 # requested.t1_new
    /\ _t2 # requested.t2_old /\ _t2 # requested.t2_new
    /\ Between(_t1, requested.t1_old, requested.t1_new)

\* C6: get_target_range() is the `to` of the animation in flight, and
\* get_range() when there is none; right after animate_range(t1, t2) it is
\* (t1, t2).
C6_TargetRange ==
    /\ _animate # None
           => get_target_range(Self) = <<_animate.t1_new, _animate.t2_new>>
    /\ _animate = None => get_target_range(Self) = get_range(Self)
    /\ call.op = "animate_range"
           => get_target_range(Self) = <<call.t1, call.t2>>

\* An animation is in flight, drawn part of its way, and the target differs
\* from the displayed range.
C6_Witness ==
    /\ _animate # None
    /\ call.op = "animation_update"
    /\ get_target_range(Self) # get_range(Self)
    /\ get_target_range(Self) = <<_animate.t1_new, _animate.t2_new>>
    /\ ~AtFrom(_t1, _t2, _animate)

\* The frame drawn at `clock` ends the animation in flight.
Ends(a) == NumGe(clock, a.animation_end)

\* C7: last writer wins.  animate_range(B) called while an animation is in
\* flight leaves the displayed range as it is and replaces the record by one
\* from the displayed range to B, so that get_target_range() is B; every
\* later frame follows the one record in flight: it keeps the record until
\* the frame that ends it, and that frame assigns the record's own `to`.
C7_LastWriterWins ==
    [][/\ (IsCallStep /\ call'.op = "animate_range" /\ _animate # None)
              => /\ UNCHANGED <<_t1, _t2>>
                 /\ _animate' # None
                 /\ AtFrom(_t1, _t2, _animate')
                 /\ AtTo(call'.t1, call'.t2, _animate')
                 /\ get_target_range(Self)' = <<call'.t1, call'.t2>>
       /\ (IsDrawStep /\ _animate # None /\ ~Ends(_animate))
              => /\ _animate' = _animate
                 /\ ValidAnim(_animate) => Proceeds(_animate)
       /\ (IsDrawStep /\ _animate # None /\ Ends(_animate))
              => AtTo(_t1', _t2', _animate)]_vars

\* animate_range has replaced an animation that frames had drawn part of
\* its way, and the new record starts from that interpolated range.
C7_Witness ==
    /\ call.op = "animate_range"
    /\ call.animating
    /\ _animate # None
    /\ AtFrom(_t1, _t2, _animate)
    /\ AtTo(call.t1, call.t2, _animate)
    /\ _t1 # NaN
    /\ _t1 # Constructed(CHOOSE start \in StartTimes : TRUE).t1
    /\ \A r \in Ranges : _t1 # r[1]

\* C8: the frame with now >= started_at + duration sets the displayed range
\* to `to` and clears the animation; with the snap flag it evaluates snap()
\* in the same call, which for an unaligned `to` leaves an animation from
\* `to` to get_snap_range(0) in flight; without the flag the engine is idle.
C8_Completion ==
    [][(IsDrawStep /\ _animate # None /\ Ends(_animate))
          => /\ AtTo(_t1', _t2', _animate)
             /\ _animate' # _animate
             /\ IF _animate.snap
                   /\ ~Aligned(_animate.t1_new, _animate.t2_new)
                THEN /\ _animate' # None
                     /\ AtFrom(_animate.t1_new, _animate.t2_new, _animate')
                     /\ <<_animate'.t1_new, _animate'.t2_new>>
                            = FirstTwo(snap_range_of(_animate.t1_new,
                                                     _animate.t2_new, 0))
                     /\ _animate'.snap
                ELSE _animate' = None]_vars

\* A frame has ended the requested animation and left the animation of the
\* snap that follows in flight.
C8_Witness ==
    /\ call.op = "animation_update"
    /\ ~call.repeat
    /\ requested # None
    /\ ValidAnim(requested)
    /\ NumGe(call.now, requested.animation_end)
    /\ AtTo(_t1, _t2, requested)
    /\ _animate # None
    /\ _animate # requested
    /\ AtFrom(_t1, _t2, _animate)
    /\ StartedAt(_animate) = call.now

\* A second frame is drawn with the now of the frame before it.
IsRepeatedDraw ==
    /\ IsDrawStep
    /\ call.op = "animation_update"
    /\ call.now = clock

\* C9: animation_update called twice in a row with the same now leaves the
\* displayed range and the animation record as the first call left them.
C9_Idempotent ==
    [][IsRepeatedDraw => UNCHANGED <<_t1, _t2, _animate>>]_vars

\* The same for the animations between intervals.
C9_IdempotentOnIntervals ==
    [][(IsRepeatedDraw /\ (_animate = None \/ ValidAnim(_animate)))
          => UNCHANGED <<_t1, _t2, _animate>>]_vars

(***************************************************************************)
(* The ticks of the time axis: the view shows any of a set of ranges in    *)
(* the zone with daylight saving time, and frames are drawn with the       *)
(* widgets, which ask for the ticks.                                       *)
(***************************************************************************)
\* The heights of the time axis in pixels.
NPixels == {100, 400}

\* The ranges shown at first: ranges of minutes, hours and days at the
\* two changes of the clock, and ranges of every size of interval.
TickViews ==
    { <<WinterTime - 300, WinterTime + 300>>,
      <<WinterTime - 3600, WinterTime + 3600>>,
      <<WinterTime - 7200 - 3600, WinterTime + 3 * 3600>>,
      <<WinterTime - 9000, WinterTime + 86400>>,
      <<WinterTime - 71 * 60, WinterTime - 61 * 60>>,
      <<SummerTime - 300, SummerTime + 300>>,
      <<SummerTime - 7200, SummerTime + 4 * 3600>>,
      <<SummerTime - 7200, SummerTime - 7200 + 7 * 86400>>,
      <<T0, T0 + 86400>>,
      <<T0 + 600, T0 + 34600>>,
      <<T0 + 3 * 86400 + 60, T0 + 17 * 86400>>,
      <<T0 + 28 * 86400, T0 + 77 * 86400>>,
      <<T0 + 10 * 86400, T0 + 10 * 86400 + 8600000>>,
      <<T0 + 31 * 86400, T0 + 59 * 86400>>,
      <<T0 + 20 * 86400, T0 + 200 * 86400>>,
      <<T0, T0 + 365 * 86400>>,
      <<T0 + 400 * 86400, T0 + 1900 * 86400>>,
      <<T0 - 86400, T0 + 3000 * 86400>> }

TickInit ==
    \E view \in TickViews :
        /\ tz = "DST"
        /\ _t1 = view[1]
        /\ _t2 = view[2]
        /\ _animate = None
        /\ dirty = TRUE
        /\ clock = 0
        /\ call = NoCall
        /\ requested = None
        /\ ncalls = 0
        /\ _cache_tick_data = None

\* The object after the animation_update of a frame.
Updated == animation_update([Self EXCEPT !.dirty = FALSE], clock)

\* The cache without the note of the model.
Cached(g) == [key |-> g.key, result |-> g.result]

\* TimeTaggerCanvas.on_draw: a frame of a view that can be used.  It fixes
\* now for the frame, calls animation_update and draws the widgets: the
\* time axis asks for the ticks of its height, one of heights.
DrawWidgets(heights) ==
    /\ \E npixels \in heights, self \in {Updated} :
           \E ticks \in {get_ticks(self, _cache_tick_data, npixels)} :
               /\ Becomes(self, [CallOf("get_ticks") EXCEPT
                                    !.npixels = npixels,
                                    !.walked = ticks.walked])
               /\ _cache_tick_data' = Cached(ticks)
    /\ UNCHANGED <<clock, requested, ncalls, tz>>

\* A frame of the window at its usual sizes.
on_draw_widgets == DrawWidgets(NPixels)

\* The heights of the time axis that get_ticks must also serve: a few
\* pixels only, and more pixels than 99 ticks need.
ResizedPixels == {4, 36, 40000}

\* A frame of the window after it was resized to its extremes.
on_draw_resized == DrawWidgets(ResizedPixels)

\* Nothing is animated here, so no frame depends on the time it is drawn.
TickNext ==
    \/ on_draw_widgets
    \/ on_draw_resized

TickSpec == TickInit /\ [][TickNext]_vars

(***************************************************************************)
(* The time axis in use: the view shows a range, the handlers step         *)
(* forward, and frames are drawn, with the widgets or without.             *)
(***************************************************************************)
AxisViews ==
    { <<T0, T0 + 86400>> }

AxisInit ==
    \E view \in AxisViews :
        /\ tz = "DST"
        /\ _t1 = view[1]
        /\ _t2 = view[2]
        /\ _animate = None
        /\ dirty = TRUE
        /\ clock = 0
        /\ call = NoCall
        /\ requested = None
        /\ ncalls = 0
        /\ _cache_tick_data = None

\* The target range one span later.
StepForward(target) == <<target[2], target[2] + (target[2] - target[1])>>

\* An input handler acts on "step_forward":
\* animate_range(t2, t2 + nsecs) of the target range.
step_forward ==
    /\ ncalls < MaxCalls
    /\ Becomes(animate_range(Self, clock,
                             StepForward(get_target_range(Self))[1],
                             StepForward(get_target_range(Self))[2],
                             NoTime, TRUE),
               [CallOf("animate_range") EXCEPT
                   !.t1 = StepForward(get_target_range(Self))[1],
                   !.t2 = StepForward(get_target_range(Self))[2],
                   !.snap = TRUE])
    /\ requested' = _animate'
    /\ ncalls' = ncalls + 1
    /\ UNCHANGED <<clock, _cache_tick_data, tz>>

AxisNext ==
    \/ Tick
    \/ step_forward
    \/ on_draw
    \/ on_draw_widgets

AxisSpec == AxisInit /\ [][AxisNext]_vars

(***************************************************************************)
(* The header: the view shows any of a set of ranges in the zone with      *)
(* daylight saving time, time passes and frames are drawn; the header of   *)
(* the displayed range can be asked for at any moment.                     *)
(***************************************************************************)
\* Where the ranges start: the Mondays of weeks within a month, across two
\* months and across two years, of the weeks in which the clock changes
\* (their local midnight), a Monday morning, a Tuesday, and a Sunday.
HeaderStarts ==
    { T0, T0 + 28 * DaySecs, T0 + 364 * DaySecs, T0 + 77 * DaySecs,
      T0 + 294 * DaySecs - 3600, T0 + 7 * DaySecs + 36000, T0 + DaySecs,
      T0 + 90 * DaySecs, T0 + 6 * DaySecs }

\* Their spans: a week, with and without the hour of a change of the
\* clock, spans near a week, and spans of days, months and years.
HeaderSpans ==
    { 7 * DaySecs, 7 * DaySecs - 3600, 7 * DaySecs + 3600,
      7 * DaySecs + 600, 7 * DaySecs - 4000, 7 * DaySecs + 4001,
      7 * DaySecs - 4001, 3600, DaySecs, 3 * DaySecs, 14 * DaySecs,
      29 * DaySecs, 91 * DaySecs, 365 * DaySecs, 800 * DaySecs }

HeaderInit ==
    \E t1 \in HeaderStarts, nsecs \in HeaderSpans :
        /\ tz = "DST"
        /\ _t1 = t1
        /\ _t2 = t1 + nsecs
        /\ _animate = None
        /\ dirty = TRUE
        /\ clock = 0
        /\ call = NoCall
        /\ requested = None
        /\ ncalls = 0
        /\ _cache_tick_data = None

HeaderNext ==
    \/ Tick
    \/ on_draw

HeaderSpec == HeaderInit /\ [][HeaderNext]_vars

(***************************************************************************)
(* Snapping over the scales: the view shows any of a set of ranges (as     *)
(* after set_range), the handlers call snap(), and frames are drawn.       *)
(***************************************************************************)
\* Where the shown ranges start: on and off the boundaries of the minute,
\* the hour, the day, the week, the month and the year.
SnapStarts ==
    { T0, T0 + 17 * 60, T0 + 5 * 3600 + 240, T0 + 3 * DaySecs + 3600,
      T0 + 45 * DaySecs, T0 + 400 * DaySecs + 60 }

\* Their spans in seconds: spans of every scale, the canonical ones and
\* some at the thresholds of SCALES.
SnapSpans ==
    { 60, 300, 420, 480, 1200, 2040, 2100, 3600, 6480, 10800, 12960, 21600,
      30600, 43200, 54000, 86400, 172800, 259200, 604800, 1028160 }
    \cup { d * DaySecs : d \in { 28, 30, 31, 35, 49, 63, 90, 92, 200, 365,
                                 366, 550, 730, 1280, 1826, 2737, 3653,
                                 5475, 7305, 9000 } }

\* The ranges shown in the zone with daylight saving time: the hour from
\* 02:00 to 03:00 that passes first in the night in which the clock is set
\* back, the six hours and the day around it, and a day in winter.
SnapSummerViews ==
    { <<WinterTime - 3600, WinterTime>>,
      <<WinterTime - 3 * 3600, WinterTime + 3 * 3600>>,
      <<WinterTime - 3 * 3600, WinterTime - 3 * 3600 + DaySecs>>,
      <<T0, T0 + DaySecs>> }

\* The zone and the range shown.
SnapViews ==
    { <<"UTC", t1, t1 + nsecs>> : t1 \in SnapStarts, nsecs \in SnapSpans }
        \cup { <<"DST", view[1], view[2]>> : view \in SnapSummerViews }

SnapInit ==
    \E view \in SnapViews :
        /\ tz = view[1]
        /\ _t1 = view[2]
        /\ _t2 = view[3]
        /\ _animate = None
        /\ dirty = TRUE
        /\ clock = 0
        /\ call = NoCall
        /\ requested = None
        /\ ncalls = 0
        /\ _cache_tick_data = None

SnapNext ==
    \/ Tick
    \/ CallSnap
    \/ on_draw

SnapSpec == SnapInit /\ [][SnapNext]_vars

\* The engine idle at the range s.
IdleAt(s) ==
    [t1 |-> s[1], t2 |-> s[2], animate |-> None, dirty |-> FALSE,
     raised |-> ""]

\* C10: get_snap_range(0) is idempotent: with the pair it returns as the
\* target, it returns that pair again.  (It does in UTC; it does not for
\* the hour before the clock is set back.)
C10_SnapIdempotent ==
    get_snap_range(IdleAt(get_snap_range(Self, 0)), 0)
        = get_snap_range(Self, 0)

\* snap() has found the target unaligned and animates to the snap range,
\* which is now the target.
C10_Witness ==
    /\ call.op = "snap"
    /\ _animate # None
    /\ get_target_range(Self) # get_range(Self)
    /\ get_snap_range(Self, 0) = get_target_range(Self)

\* C11: snap() called when the target range is get_snap_range(0) changes
\* nothing: it starts no animation, keeps the animation in flight toward
\* that target, and leaves the displayed range (and asks for no redraw).
C11_SnapNoOp ==
    [][(IsCallStep /\ call'.op = "snap"
          /\ get_target_range(Self) = get_snap_range(Self, 0))
          => UNCHANGED <<_t1, _t2, _animate, dirty>>]_vars

\* snap() has been called during an animation toward an aligned range, and
\* the animation, started before the call, is still the one in flight.
C11_Witness ==
    /\ call.op = "snap"
    /\ call.animating
    /\ _animate # None
    /\ ValidAnim(_animate)
    /\ ~IsSpecial(_animate.animation_time)
    /\ StartedAt(_animate) < call.now
    /\ get_target_range(Self) = get_snap_range(Self, 0)
    /\ get_target_range(Self) # get_range(Self)

\* C12: an animation that snap() starts has its snap flag cleared, so that
\* its completion does not evaluate snap() again; snap() is called by the
\* input handlers and by the frame that ends an animation with the flag.
C12_SnapClearsFlag ==
    [][/\ (IsCallStep /\ call'.op = "snap" /\ _animate' # _animate)
              => ~_animate'.snap
       /\ (IsDrawStep /\ _animate # None /\ Ends(_animate)
              /\ _animate' # None)
              => ~_animate'.snap]_vars

\* The scale steps the callers pass to get_snap_range and get_snap_seconds.
ScaleSteps == {-1, 0, 1}

\* What snap() decides for the object: whether it starts an animation, and
\* the target afterwards.
SnapDecision(self) ==
    << snap(self, clock).animate # self.animate,
       get_target_range(snap(self, clock)) >>

\* C13: get_snap_range(k), get_snap_seconds(k) and snap() depend on the
\* target range only: when the displayed range differs from the target they
\* give what they give for the engine idle at the target.  (Stated of the
\* object as every call leaves it; the passing of time does not change it.)
C13_SnapUsesTarget ==
    (call.now = clock /\ get_target_range(Self) # get_range(Self))
        => /\ \A k \in ScaleSteps :
                  /\ get_snap_range(Self, k)
                         = get_snap_range(IdleAt(get_target_range(Self)), k)
                  /\ get_snap_seconds(Self, k)
                         = get_snap_seconds(IdleAt(get_target_range(Self)), k)
           /\ SnapDecision(Self) = SnapDecision(IdleAt(get_target_range(Self)))

\* An animation is drawn part of its way, and the displayed range would
\* snap to another range than the target does.
C13_Witness ==
    /\ _animate # None
    /\ call.op = "animation_update"
    /\ Interval(_t1, _t2)
    /\ get_target_range(Self) # get_range(Self)
    /\ get_snap_range(IdleAt(get_range(Self)), 0) # get_snap_range(Self, 0)

\* C20: a redraw is requested by every set_range call (that does not fail),
\* by every animate_range call, and by every animation_update call made
\* while an animation is in flight, the completing one included; hence a
\* redraw is pending whenever an animation is in flight.
C20_RedrawRequested ==
    /\ [][/\ (IsCallStep /\ call'.op = "set_range" /\ call'.raised = "")
                 => dirty'
          /\ (IsCallStep /\ call'.op = "animate_range") => dirty'
          /\ (IsDrawStep /\ _animate # None) => dirty']_vars
    /\ [](_animate # None => dirty)

\* The frame that completed an animation has left the engine idle and a
\* redraw requested.
C20_Witness ==
    /\ call.op = "animation_update"
    /\ call.animating
    /\ _animate = None
    /\ dirty

\* The scale i is the first scale with a name whose threshold exceeds nsecs.
FirstNamedAbove(i, nsecs) ==
    /\ SCALES[i][4] # "" /\ nsecs < SCALES[i][3]
    /\ \A j \in 1..(i - 1) : SCALES[j][4] = "" \/ nsecs >= SCALES[j][3]

\* get_stat_period() gives the resolution and the name of the scale i, with
\* "1W" for the resolution of the scale "1M".
GivesScale(i) ==
    /\ get_stat_period(Self)[2] = SCALES[i][4]
    /\ get_stat_period(Self)[1]
           = (IF SCALES[i][1] = <<1, "M">> THEN <<1, "W">> ELSE SCALES[i][2])

\* C17 as stated: get_stat_period() is (None, "") exactly when the span is
\* below 2 days, and for EVERY span of 2 days or more it gives the
\* resolution and the non-empty name of the first named scale whose
\* threshold exceeds the span ("1W" for the scale "1M").
C17_AsStated ==
    /\ get_stat_period(Self) = <<NoPeriod, "">> <=> _t2 - _t1 < 2 * DaySecs
    /\ _t2 - _t1 >= 2 * DaySecs
           => /\ get_stat_period(Self)[2] # ""
              /\ \E i \in 1..Len(SCALES) :
                     FirstNamedAbove(i, _t2 - _t1) /\ GivesScale(i)

\* C17: the same for the spans below 550 days, the largest threshold of a
\* named scale; for a span of 550 days or more, which no named scale
\* exceeds, get_stat_period() is ("1Y", "").
C17_StatPeriod ==
    /\ get_stat_period(Self) = <<NoPeriod, "">> <=> _t2 - _t1 < 2 * DaySecs
    /\ (_t2 - _t1 >= 2 * DaySecs /\ _t2 - _t1 < 550 * DaySecs)
           => /\ get_stat_period(Self)[2] # ""
              /\ \E i \in 1..Len(SCALES) :
                     FirstNamedAbove(i, _t2 - _t1) /\ GivesScale(i)
    /\ _t2 - _t1 >= 550 * DaySecs
           => get_stat_period(Self) = << <<1, "Y">>, "" >>

\* The view shows a range of the month level, drawn part of the way of a
\* snap: the period is the week.
C17_Witness ==
    /\ _animate # None
    /\ call.op = "animation_update"
    /\ _t2 - _t1 >= 2 * DaySecs
    /\ get_stat_period(Self) = << <<1, "W">>, "Month" >>

\* The major delta that get_ticks uses for the range and the height of the
\* cache key.
MajorDelta(key) == DeltasOf(key[2] - key[1], key[3]).delta

\* t + delta, the later of the calendar sum and the sum in seconds.
Later(t, delta) ==
    IF delta[2] \in {"M", "Y"} THEN dt_add(t, delta)
    ELSE Max(dt_add(t, delta), t + delta[1] * UnitSecs(delta[2]))

\* C15: every major tick of get_ticks, the ticks at the summertime
\* transition included, has its timestamp in
\* [floor(t1 - 0.1 * span, major_delta), t2 + major_delta].
C15_TicksInRange ==
    _cache_tick_data # None =>
        LET key == _cache_tick_data.key
            ticks == _cache_tick_data.result[1]
        IN  \A i \in DOMAIN ticks :
                /\ dt_floor(key[1] - ((key[2] - key[1] + 9) \div 10),
                            MajorDelta(key)) <= ticks[i][2]
                /\ ticks[i][2] <= Later(key[2], MajorDelta(key))

\* The minor ticks that lie between the positions a and b.
MinorsBetween(minor_ticks, a, b) ==
    {j \in DOMAIN minor_ticks : a < minor_ticks[j][1] /\ minor_ticks[j][1] < b}

\* C16: between two neighbouring major ticks of get_ticks lie at most 20
\* minor ticks, whatever major and minor delta the selection, the
\* hysteresis and the week override give.
C16_MinorTicksBounded ==
    _cache_tick_data # None =>
        LET ticks == _cache_tick_data.result[1]
            minor_ticks == _cache_tick_data.result[2]
        IN  \A i, k \in DOMAIN ticks :
                (/\ ticks[i][1] < ticks[k][1]
                 /\ \A m \in DOMAIN ticks :
                        ~(ticks[i][1] < ticks[m][1] /\ ticks[m][1] < ticks[k][1]))
                    => Cardinality(MinorsBetween(minor_ticks, ticks[i][1],
                                                 ticks[k][1])) <= 20

\* A step in which a frame is drawn with the widgets (get_ticks is called).
IsTicksStep ==
    /\ ncalls' = ncalls
    /\ clock' = clock
    /\ call'.op = "get_ticks"

\* C14: get_ticks(npixels) called with the displayed range and the number
\* of pixels of the call before it returns the cached result, the same as
\* before, and does not compute the ticks again.
C14_TicksCached ==
    [][(/\ IsTicksStep
        /\ _cache_tick_data # None
        /\ _cache_tick_data.key = <<_t1', _t2', call'.npixels>>)
           => /\ ~call'.walked
              /\ _cache_tick_data'.result = _cache_tick_data.result
              /\ _cache_tick_data' = _cache_tick_data]_vars

\* A frame has found the ticks of its range and height in the cache, after
\* a frame that computed them.
C14_Witness ==
    /\ call.op = "get_ticks"
    /\ ~call.walked
    /\ _cache_tick_data # None
    /\ _cache_tick_data.key = <<_t1, _t2, call.npixels>>
    /\ Len(_cache_tick_data.result[1]) > 0

\* C19: animation_update() without an animation in flight is a no-op: the
\* displayed range, the animation and the tick cache stay as they are and
\* no redraw is requested.  (In a frame with the widgets the tick cache is
\* that of get_ticks, called after animation_update.)
C19_IdleUpdateNoOp ==
    [][/\ (IsDrawStep /\ _animate = None)
              => /\ UNCHANGED <<_t1, _t2, _animate, _cache_tick_data>>
                 /\ ~dirty'
       /\ (IsTicksStep /\ _animate = None)
              => /\ UNCHANGED <<_t1, _t2, _animate>>
                 /\ ~dirty']_vars

\* animation_update was called without an animation in flight, with ticks
\* in the cache.
C19_Witness ==
    /\ call.op = "animation_update"
    /\ ~call.animating
    /\ _animate = None
    /\ _cache_tick_data # None
    /\ ~dirty

HeaderFormat == get_context_header(Self)[1]

\* The header uses the "Week N" phrasing.
UsesWeekN ==
    HeaderFormat \in
        { "Week {wn}  {monthday1}-{monthday2}  {monthname1} {year1}",
          "Week {wn}  {monthname1} / {monthname2} {year1}",
          "Week {wn}  {monthname1} {year1} / {monthname2} {year2}" }

\* The "Week N" phrasing of a range within a month, across two months of a
\* year, and across two years.
WeekFormatOf(d1, d2) ==
    IF d1[1] # d2[1]
    THEN "Week {wn}  {monthname1} {year1} / {monthname2} {year2}"
    ELSE IF d1[2] # d2[2]
    THEN "Week {wn}  {monthname1} / {monthname2} {year1}"
    ELSE "Week {wn}  {monthday1}-{monthday2}  {monthname1} {year1}"

\* The displayed range starts on the first day of a week and spans 7 days,
\* or 7 days with the hour of a change of the clock more or less.
StartsWeekOfSevenDays ==
    /\ dt_is_first_day_of_week(_t1)
    /\ _t2 - _t1 \in {7 * DaySecs - 3600, 7 * DaySecs, 7 * DaySecs + 3600}

\* The displayed range starts on the first day of a week and its span is
\* within 4000 s of 7 days.
StartsWeekOfAboutSevenDays ==
    /\ dt_is_first_day_of_week(_t1)
    /\ _t2 - _t1 >= 7 * DaySecs - 4000
    /\ _t2 - _t1 <= 7 * DaySecs + 4000

CacheViews ==
    { <<T0 + 28 * 86400, T0 + 77 * 86400>> }

CacheInit ==
    \E view \in CacheViews :
        /\ tz = "DST"
        /\ _t1 = view[1]
        /\ _t2 = view[2]
        /\ _animate = None
        /\ dirty = TRUE
        /\ clock = 0
        /\ call = NoCall
        /\ requested = None
        /\ ncalls = 0
        /\ _cache_tick_data = None

\* dsecs: how much time the pointer has moved.
PanSeconds == {86400}

\* The pointer moves with the button down:
\* set_range(t1 + dsecs, t2 + dsecs).
pointer_move ==
    /\ ncalls < MaxCalls
    /\ \E dsecs \in PanSeconds :
           Becomes(set_range(Self, _t1 + dsecs, _t2 + dsecs),
                   [CallOf("set_range") EXCEPT !.t1 = _t1 + dsecs,
                                               !.t2 = _t2 + dsecs])
    /\ requested' = None
    /\ ncalls' = ncalls + 1
    /\ UNCHANGED <<clock, _cache_tick_data, tz>>

CacheNext ==
    \/ Tick
    \/ pointer_move
    \/ step_forward
    \/ CallSnap
    \/ on_draw_widgets

CacheSpec == CacheInit /\ [][CacheNext]_vars

(***************************************************************************)
(* An animation left to run: the handlers call animate_range while the     *)
(* view is touched, and the frames go on long after, every frame with a    *)
(* later now, in the zone with daylight saving time.                       *)
(***************************************************************************)
\* The time until which frames are drawn, and the time until which the
\* handlers make their calls.
LiveClock == 5 * MaxClock

TouchClock == 1

\* The range shown at first.
LiveViews ==
    { <<WinterTime - 3 * 3600, WinterTime + 3 * 3600>> }

\* The ranges the handlers animate to: the hour from 02:00 to 03:00 that
\* passes first in the night in which the clock is set back, an unaligned
\* range of 50 minutes, and a day.
LiveRanges ==
    { <<WinterTime - 3600, WinterTime>>,
      <<WinterTime + 86400 + 240, WinterTime + 86400 + 3240>>,
      <<WinterTime - 3 * 3600, WinterTime - 3 * 3600 + DaySecs>> }

LiveInit ==
    \E view \in LiveViews :
        /\ tz = "DST"
        /\ _t1 = view[1]
        /\ _t2 = view[2]
        /\ _animate = None
        /\ dirty = TRUE
        /\ clock = 0
        /\ call = NoCall
        /\ requested = None
        /\ ncalls = 0
        /\ _cache_tick_data = None

\* A frame was drawn now, or no redraw is asked for.
Served ==
    dirty => (call.op = "animation_update" /\ call.now = clock)

\* Time passes, also after the last call of a handler.  The browser draws
\* the frame that update() asked for before the next tenth of a second.
TimePasses ==
    /\ clock < LiveClock
    /\ Served
    /\ clock' = clock + 1
    /\ UNCHANGED <<_t1, _t2, _animate, _cache_tick_data, dirty, call,
                   requested, ncalls, tz>>

\* An input handler calls animate_range(t1, t2) or
\* animate_range(t1, t2, None, False) with t1 < t2, while the view is
\* touched.
animate_to ==
    /\ ncalls < MaxCalls
    /\ clock <= TouchClock
    /\ \E r \in LiveRanges, sn \in BOOLEAN :
           Becomes(animate_range(Self, clock, r[1], r[2], NoTime, sn),
                   [CallOf("animate_range") EXCEPT
                       !.t1 = r[1], !.t2 = r[2], !.snap = sn])
    /\ requested' = _animate'
    /\ ncalls' = ncalls + 1
    /\ UNCHANGED <<clock, _cache_tick_data, tz>>

LiveNext ==
    \/ TimePasses
    \/ animate_to
    \/ on_draw

\* Time does not stop.  That the frames asked for are drawn is the hypothesis
\* of the property checked here.
LiveSpec ==
    /\ LiveInit
    /\ [][LiveNext]_vars
    /\ WF_vars(TimePasses)

(***************************************************************************)
(* The deltas of get_ticks.                                                *)
(***************************************************************************)
\* The row of INTERVALS selected for the range and the height of the key.
SelectedRow(key) == IntervalIndex(key[2] - key[1], PerDistance(key[3]))

\* The threshold of the selected row is within 12.5% of min_interval.
WithinEighth(key) ==
    CloseToNext(INTERVALS[SelectedRow(key)][4], key[2] - key[1],
                PerDistance(key[3]))

\* The scale of SCALES that matches the span of the key.
MatchingScale(key) == SCALES[NearestScale(key[2] - key[1])]

\* The result of get_ticks for the key when the walk uses minor_delta.
TicksWithMinor(key, minor_delta) ==
    TicksWith(WalkOf(key[1], key[2], key[3],
                     [DeltasOf(key[2] - key[1], key[3])
                          EXCEPT !.minor_delta = minor_delta]),
              DeltasOf(key[2] - key[1], key[3]))

\* C21 as stated: the minor delta is borrowed from the denser level, the
\* row before the selected one.
C21_AsStated ==
    (/\ _cache_tick_data # None
     /\ ~IsWeekView(MatchingScale(_cache_tick_data.key))
     /\ SelectedRow(_cache_tick_data.key) > 1
     /\ WithinEighth(_cache_tick_data.key))
        => _cache_tick_data.result
               = TicksWithMinor(_cache_tick_data.key,
                     INTERVALS[SelectedRow(_cache_tick_data.key) - 1][2])

\* C21: when the threshold of the selected row of INTERVALS exceeds
\* min_interval by less than 12.5% of the threshold and the row is not the
\* last one, the minor ticks of get_ticks are those of the minor delta of
\* the next row, the coarser level, unless the week view overrides it.
C21_MinorOfNextRow ==
    (/\ _cache_tick_data # None
     /\ ~IsWeekView(MatchingScale(_cache_tick_data.key))
     /\ SelectedRow(_cache_tick_data.key) < Len(INTERVALS)
     /\ WithinEighth(_cache_tick_data.key))
        => _cache_tick_data.result
               = TicksWithMinor(_cache_tick_data.key,
                     INTERVALS[SelectedRow(_cache_tick_data.key) + 1][2])

C21_Witness ==
    /\ _cache_tick_data # None
    /\ _cache_tick_data.key = <<T0 + 600, T0 + 34600, 400>>
    /\ SelectedRow(_cache_tick_data.key) = 6
    /\ WithinEighth(_cache_tick_data.key)
    /\ _cache_tick_data.result
           = TicksWithMinor(_cache_tick_data.key, <<15, "m">>)
    /\ _cache_tick_data.result
           # TicksWithMinor(_cache_tick_data.key, <<10, "m">>)

\* The ticks are one week apart from the floor of t1 - 0.1 * span to the
\* week, and no minor tick lies between them.
Weekly(key, result) ==
    /\ Len(result[1]) >= 1
    /\ result[1][1][2]
           = dt_floor(key[1] - ((key[2] - key[1] + 9) \div 10), <<1, "W">>)
    /\ \A i \in 2..Len(result[1]) :
           result[1][i][2] = dt_add(result[1][i - 1][2], <<1, "W">>)
    /\ result[2] = << >>

\* C22 as stated: the scales "1W" and "7W" both force the week deltas.
C22_AsStated ==
    (/\ _cache_tick_data # None
     /\ MatchingScale(_cache_tick_data.key)[1] \in {<<1, "W">>, <<7, "W">>})
        => Weekly(_cache_tick_data.key, _cache_tick_data.result)

\* C22: whenever the scale of SCALES that matches the displayed span has a
\* range and a resolution that are both in weeks, which only the scale
\* ("7W", "1W") is, the major and the minor delta of get_ticks are one
\* week, whatever the row of INTERVALS and the hysteresis give.
C22_WeekOverride ==
    (/\ _cache_tick_data # None
     /\ MatchingScale(_cache_tick_data.key)[1][2] = "W"
     /\ MatchingScale(_cache_tick_data.key)[2][2] = "W")
        => /\ MatchingScale(_cache_tick_data.key)[1] = <<7, "W">>
           /\ Weekly(_cache_tick_data.key, _cache_tick_data.result)

C22_Witness ==
    /\ _cache_tick_data # None
    /\ _cache_tick_data.key = <<T0 + 28 * 86400, T0 + 77 * 86400, 400>>
    /\ MatchingScale(_cache_tick_data.key)[1] = <<7, "W">>
    /\ INTERVALS[SelectedRow(_cache_tick_data.key)][1] = <<8, "D">>
    /\ Len(_cache_tick_data.result[1]) >= 8
    /\ Weekly(_cache_tick_data.key, _cache_tick_data.result)

(***************************************************************************)
(* The loop of get_ticks.                                                  *)
(***************************************************************************)
\* The deltas of get_ticks for the key.
DeltasOfKey(key) == DeltasOf(key[2] - key[1], key[3])

\* C23: the loop of get_ticks makes at most min(2 * npixels /
\* min_distance, 99) rounds, so never more than 99: where no tick is added
\* at a summertime transition, at most that many ticks are returned.
C23_WalkCapped ==
    (/\ _cache_tick_data # None
     /\ ~DeltasOfKey(_cache_tick_data.key).check)
        => /\ Len(_cache_tick_data.result[1])
                  <= Min(2 * PerDistance(_cache_tick_data.key[3]), 99)
           /\ Len(_cache_tick_data.result[1]) <= 99

\* What the walk of the key works with.
WalkOfKey(key) == WalkOf(key[1], key[2], key[3], DeltasOfKey(key))

\* C24: every major tick (pix_pos, t) of get_ticks, the ticks at the
\* summertime transition included, has pix_pos = (t - t1) * npixels / span
\* for the displayed range (t1, t2).
C24_TickPositions ==
    _cache_tick_data # None =>
        \A i \in DOMAIN _cache_tick_data.result[1] :
            _cache_tick_data.result[1][i][1]
                = PixPos(_cache_tick_data.result[1][i][2],
                         WalkOfKey(_cache_tick_data.key))

\* min_interval is below the largest interval of INTERVALS.
SelectsRow(key) ==
    (key[2] - key[1]) \div PerDistance(key[3])
        < INTERVALS[Len(INTERVALS)][4]

\* C30: whenever min_interval is below the largest interval of INTERVALS,
\* the loop of get_ticks ends with a tick beyond t2 and not at maxi: the
\* ticks returned reach beyond the end of the displayed range, at every
\* height and in the week view.
C30_WalkReachesEnd ==
    (/\ _cache_tick_data # None
     /\ SelectsRow(_cache_tick_data.key))
        => \E i \in DOMAIN _cache_tick_data.result[1] :
               _cache_tick_data.result[1][i][2] > _cache_tick_data.key[2]

(***************************************************************************)
(* The cache of get_ticks.                                                 *)
(***************************************************************************)
\* C29: the cache of get_ticks is never stale: whatever set_range,
\* animate_range, snap, animation_update and get_ticks calls came before,
\* get_ticks(npixels) returns what it computes without a cache for the
\* displayed range and npixels, and the cached result is that of the
\* cached key.
C29_CacheNeverStale ==
    [][IsTicksStep =>
           /\ _cache_tick_data'.key = <<_t1', _t2', call'.npixels>>
           /\ _cache_tick_data'.result = Ticks(_t1', _t2', call'.npixels)]_vars

C29_Witness ==
    /\ call.op = "get_ticks"
    /\ ~call.walked
    /\ ncalls = MaxCalls
    /\ _cache_tick_data.key[1] # T0 + 28 * 86400
    /\ _cache_tick_data.result
           = Ticks(_t1, _t2, call.npixels)

(***************************************************************************)
(* set_range during an animation.                                          *)
(***************************************************************************)
\* The n-th call was set_range(r), made while an animation ran, and it
\* returned.
Cancelled(n, r) ==
    /\ ncalls = n
    /\ call.op = "set_range"
    /\ call.animating
    /\ call.raised = ""
    /\ call.t1 = r[1]
    /\ call.t2 = r[2]

\* C26: a set_range made while an animation is in flight cancels it for
\* good: as long as no further call is made, whatever frames call
\* animation_update at whatever time, the displayed range stays the one
\* given to set_range and no animation, of the old target or to a snapped
\* range, exists.
C26_SetRangeCancels ==
    \A n \in 1..MaxCalls, r \in Ranges :
        [](Cancelled(n, r)
              => [](ncalls = n
                       => /\ _t1 = r[1]
                          /\ _t2 = r[2]
                          /\ _animate = None))

C26_Witness ==
    /\ Cancelled(MaxCalls, <<T0 + 240, T0 + 3240>>)
    /\ requested = None
    /\ _animate = None
    /\ <<_t1, _t2>> = <<T0 + 240, T0 + 3240>>

(***************************************************************************)
(* The scales and the snap range.                                          *)
(***************************************************************************)
\* The index of the scale that get_snap_range(k) chooses for the target.
ChosenScale(self, k) ==
    ScaleIndex(get_target_range(self)[2] - get_target_range(self)[1], k)

\* The thresholds of SCALES ascend strictly.
Ascending == \A i \in 1..(Len(SCALES) - 1) : SCALES[i][3] < SCALES[i + 1][3]

\* C27: SCALES ascends strictly in its thresholds up to the catch-all last
\* entry, and the canonical span of every scale, from wherever dt.add
\* measures it, is at least the threshold of the entry before and below
\* its own: a range of one canonical span, as get_snap_range returns it,
\* selects the scale it was made for.
C27_CanonicalSpans ==
    /\ Ascending
    /\ \A k \in ScaleSteps :
           NearestScale(get_snap_range(Self, k)[2] - get_snap_range(Self, k)[1])
               = ChosenScale(Self, k)

\* C28: for every target range and every scale step, the steps past the
\* ends of SCALES included, get_snap_range returns (t3, t4) with t3 < t4,
\* t3 aligned to the resolution of the chosen scale and t4 = dt.add(t3,
\* ran) for its canonical span ran.
C28_SnapRangeAligned ==
    \A k \in ScaleSteps :
        \A r \in {get_snap_range(Self, k)}, scale \in {ChosenScale(Self, k)} :
            /\ r[1] < r[2]
            /\ dt_floor(r[1], SCALES[scale][2]) = r[1]
            /\ r[2] = dt_add(r[1], SCALES[scale][1])

C28_Witness ==
    /\ _animate = None
    /\ <<_t1, _t2>> = <<T0 + 17 * 60, T0 + 17 * 60 + 60>>
    /\ NearestScale(_t2 - _t1) - 1 < 1
    /\ ChosenScale(Self, -1) = 1
    /\ get_snap_range(Self, -1) = <<T0 + 15 * 60, T0 + 20 * 60>>

(***************************************************************************)
(* An animation left to run.                                               *)
(***************************************************************************)
\* The n-th call was animate_range(r[1], r[2]) with the snap flag sn, and
\* it is the last call so far.
Animated(n, r, sn) ==
    /\ ncalls = n
    /\ requested # None
    /\ <<requested.t1_new, requested.t2_new>> = r
    /\ requested.snap = sn

\* The engine is idle at the range asked for, snapped if sn.
Settled(r, sn) ==
    /\ _animate = None
    /\ get_range(Self) = (IF sn THEN get_snap_range(IdleAt(r), 0) ELSE r)

\* A frame ends an animation and leaves another one in flight.
IsSnapStep ==
    /\ IsDrawStep
    /\ _animate # None
    /\ _animate' # None
    /\ _animate' # _animate

\* C25: after an animate_range with t1 < t2 that no further call follows,
\* the frames of a time that goes on (every frame asked for is drawn) make
\* the engine idle for good; at most one animation of a snap follows the
\* one asked for, and the range shown in the end is get_snap_range(0) of the
\* target asked for if the snap flag was set and that target if it was not.
C25_EventuallyIdle ==
    /\ []<>Served
           => \A n \in 1..MaxCalls, r \in LiveRanges, sn \in BOOLEAN :
                  <>[]Animated(n, r, sn) => <>[]Settled(r, sn)
    /\ [][IsSnapStep => _animate = requested]_vars
====
